---- MODULE Spec2Model ----
(***************************************************************************)
(* Arcticons-KDE icon generator (scripts/generate_icons.py) and the        *)
(* mapping reconciler (scripts/find_missing_mappings.py) as a state        *)
(* machine over an explicit model of the destination trees.                *)
(***************************************************************************)
EXTENDS Integers, Sequences, FiniteSets, TLC

\* ---------------------------------------------------------------- bounds
\* number of consecutive invocations of the generator
MaxRuns == 2
\* longest destination list of a mapping entry
MaxDests == 2

\* ------------------------------------------------------------ the inputs
\* the sections a configuration document may hold
SectionSet == {"arcticons-light", "arcticons-dark"}

\* config[section]["src_paths"], in declared order
SrcPaths == <<"src1", "src2">>

\* canonical names, spelled character by character
NameAB == <<"a", "_", "b">>

NameC == <<"c">>

\* entry.replace('_', '-')
Hyphenate(name) == [i \in DOMAIN name |-> IF name[i] = "_" THEN "-" ELSE name[i]]

\* every file stem a source directory may hold
SrcNames == {NameAB, Hyphenate(NameAB), NameC}

SrcSlots == {<<SrcPaths[i], n>> : i \in DOMAIN SrcPaths, n \in SrcNames}

\* destination paths of the mapping document (relative, without extension)
Dest(d, s) == [dir |-> d, stem |-> s]

Paths == {Dest("apps", "foo"), Dest("apps", "bar"), Dest("places", "foo")}

Dirs == {p.dir : p \in Paths}

SizeFolders ==
  {"8x8", "16x16", "16x16@2x", "18x18", "18x18@2x", "22x22", "22x22@2x",
   "24x24", "24x24@2x", "32x32", "32x32@2x", "42x42", "48x48", "48x48@2x",
   "64x64", "64x64@2x", "84x84", "96x96", "128x128"}

\* ------------------------------------------------------- the file system
NoNode == [kind |-> "none"]

FileNode(c) == [kind |-> "file", content |-> c]

LinkNode(t) == [kind |-> "link", target |-> t]

\* file name of a destination in the scalable or the symbolic tree,
\* as its dot-separated parts
FileName(root, p) ==
  IF root = "scalable" THEN <<p.stem, "svg">> ELSE <<p.stem \o "-symbolic", "svg">>

\* Path(a).relative_to(Path(b).parent, walk_up=True)
RelativeTo(root, a, b) ==
  IF a.dir = b.dir THEN <<FileName(root, a)>> ELSE <<"..", a.dir, FileName(root, a)>>

\* the path a link at p names; None when no such path is in the model
NoPath == [dir |-> "", stem |-> ""]

LinkDest(root, p, rel) ==
  LET d == IF Len(rel) = 1 THEN p.dir ELSE rel[2]
      f == rel[Len(rel)]
      hit == {q \in Paths : q.dir = d /\ FileName(root, q) = f}
  IN  IF hit = {} THEN NoPath ELSE CHOOSE q \in hit : TRUE

\* the kernel's path resolution: follow links until a non-link, giving up
\* on a cycle (ELOOP)
RECURSIVE Follow(_, _, _, _)
Follow(root, nodes, p, fuel) ==
  IF p = NoPath THEN NoPath
  ELSE IF nodes[p].kind # "link" THEN p
  ELSE IF fuel = 0 THEN NoPath
  ELSE Follow(root, nodes, LinkDest(root, p, nodes[p].target), fuel - 1)

Nodes(tree, root) == IF root = "scalable" THEN tree.scal ELSE tree.symb

Final(tree, root, p) == Follow(root, Nodes(tree, root), p, Cardinality(Paths))

\* Path.exists(): follows links; False for a dangling link or a cycle
Exists(tree, root, p) ==
  LET f == Final(tree, root, p)
  IN  f # NoPath /\ Nodes(tree, root)[f].kind = "file"

\* what a read of the path returns
ReadFile(tree, root, p) == Nodes(tree, root)[Final(tree, root, p)].content

AbsentTree ==
  [exists |-> FALSE, dirs |-> {}, scal |-> [p \in Paths |-> NoNode],
   symb |-> [p \in Paths |-> NoNode], stray |-> {}, index |-> "none",
   sizes |-> {}]

EmptyTree == [AbsentTree EXCEPT !.exists = TRUE]

\* Path.mkdir(parents=True, exist_ok=True) of <root>/<dir>
Mkdir(tree, root, d) ==
  [tree EXCEPT !.exists = TRUE, !.dirs = @ \cup {<<root>>, <<root, d>>}]

SetNode(tree, root, p, n) ==
  IF root = "scalable" THEN [tree EXCEPT !.scal[p] = n]
  ELSE [tree EXCEPT !.symb[p] = n]

\* opening the path for writing: the write lands on the file the path
\* resolves to; it fails on a cycle and in a missing directory
CanWrite(tree, root, p) ==
  LET f == Final(tree, root, p)
  IN  f # NoPath /\ <<root, f.dir>> \in tree.dirs

WriteFile(tree, root, p, c) == SetNode(tree, root, Final(tree, root, p), FileNode(c))

\* Path.unlink(missing_ok=True) followed by os.symlink(relative target)
Relink(tree, root, primary, alias) ==
  SetNode(Mkdir(tree, root, alias.dir), root, alias,
          LinkNode(RelativeTo(root, primary, alias)))

\* the alias loop of process_entry over dests[1:], in list order
RECURSIVE LinkAliases(_, _, _, _)
LinkAliases(tree, root, primary, aliases) ==
  IF aliases = <<>> THEN tree
  ELSE LinkAliases(Relink(tree, root, primary, Head(aliases)), root, primary,
                   Tail(aliases))

\* ------------------------------------------------------ source resolution
NoSource == <<"", <<>>>>

\* index of the first directory of src_paths holding <fname>.svg, 0 if none
RECURSIVE FirstHit(_, _, _)
FirstHit(files, fname, i) ==
  IF i > Len(SrcPaths) THEN 0
  ELSE IF files[<<SrcPaths[i], fname>>] # "absent" THEN i
  ELSE FirstHit(files, fname, i + 1)

\* a single scan that tries both spellings in each directory
RECURSIVE OnePass(_, _, _)
OnePass(files, entry, i) ==
  IF i > Len(SrcPaths) THEN NoSource
  ELSE IF files[<<SrcPaths[i], entry>>] # "absent" THEN <<SrcPaths[i], entry>>
  ELSE IF files[<<SrcPaths[i], Hyphenate(entry)>>] # "absent"
       THEN <<SrcPaths[i], Hyphenate(entry)>>
  ELSE OnePass(files, entry, i + 1)

ResolveSourceOnePass(files, entry) == OnePass(files, entry, 1)

\* the two scans of process_entry: the exact name over every directory,
\* then the hyphenated name over every directory
ResolveSource(files, entry) ==
  LET exact == FirstHit(files, entry, 1)
      hyphen == FirstHit(files, Hyphenate(entry), 1)
  IN  IF exact # 0 THEN <<SrcPaths[exact], entry>>
      ELSE IF hyphen # 0 THEN <<SrcPaths[hyphen], Hyphenate(entry)>>
      ELSE NoSource

\* a skip test that looks at the primary alone
AllExistPrimaryOnly(tree, dests) == Exists(tree, "scalable", dests[1])

\* a skip test that takes only regular files for present
AllExistRegular(tree, dests) ==
  ~ \E i \in DOMAIN dests : tree.scal[dests[i]].kind # "file"

\* the skip test of process_entry
AllExist(tree, dests) ==
  ~ \E i \in DOMAIN dests : ~ Exists(tree, "scalable", dests[i])

\* ------------------------------------------------------------- the state
VARIABLES
  has_inkscape,     \* which("org.inkscape.Inkscape") found the tool
  config,           \* config.toml: sequence of [section, overwrite], document order
  mapping,          \* mapping.yaml: sequence of [entry, dests], document order
  srcFiles,         \* <<source directory, stem>> -> "absent" | "styled" | "nostyle"
  fs,               \* section -> destination tree
  failed_symlinks,  \* the module-level failure list
  pc,               \* position of the run
  exc,              \* the exception that ended the run, "none" otherwise
  run,              \* number of the current invocation
  ti,               \* index of the current section
  ei,               \* index of the current mapping entry
  src_file,         \* src_file of the current process_entry call
  tool_rc,          \* exit status of the tool in the current call, -1 before
  ops,              \* file operations of the current process_entry call
  allExisted,       \* outcome of the skip test of the current call
  wrote,            \* what the current run created, rewrote or removed
  reported,         \* the run printed the failure list
  prevFs,           \* the trees as the previous run left them
  prevPc,           \* how the previous run ended
  link_map,         \* the reconciler's groups: key -> list of paths
  scanOrder         \* the order in which glob yielded the paths

vars ==
  <<has_inkscape, config, mapping, srcFiles, fs, failed_symlinks, pc, exc, run,
    ti, ei, src_file, tool_rc, ops, allExisted, wrote, reported, prevFs, prevPc,
    link_map, scanOrder>>

inputs == <<has_inkscape, config, mapping, srcFiles>>

recon == <<link_map, scanOrder>>

history == <<prevFs, prevPc>>

Section == config[ti].section

Tree == fs[Section]

Entry == mapping[ei].entry

Dests == mapping[ei].dests

Primary == Dests[1]

Content == [src |-> src_file, theme |-> Section]

\* -------------------------------------------------------------- helpers
NoEntryState ==
  /\ src_file' = NoSource
  /\ tool_rc' = -1
  /\ ops' = <<>>
  /\ allExisted' = FALSE

\* process_entry returns to generate_destination
Advance ==
  /\ ei' = ei
  /\ pc' = "return"

\* an uncaught exception ends the process
Raise(e) ==
  /\ pc' = "aborted"
  /\ exc' = e

DirMark(tree, root, d) ==
  IF <<root, d>> \in tree.dirs THEN {}
  ELSE {<<Section, "dir", Dest(root, d)>>}

AliasMarks(tree, root, dests) ==
  UNION {DirMark(tree, root, dests[i].dir) \cup {<<Section, root, dests[i]>>} :
         i \in 2..Len(dests)}

\* -------------------------------------------------------------- the run
\* main: the tool test, then the two documents are read (both readable)
MainStart ==
  /\ pc = "start"
  /\ IF ~ has_inkscape
     THEN /\ pc' = "done"
          /\ ti' = ti
     ELSE /\ pc' = "theme"
          /\ ti' = 1
  /\ UNCHANGED <<inputs, fs, failed_symlinks, exc, run, ei, src_file, tool_rc, ops,
                 allExisted, wrote, reported, history, recon>>

\* main: the head of the loop over the sections (rmtree on overwrite)
ThemeBegin ==
  /\ pc = "theme"
  /\ IF config[ti].overwrite
     THEN IF Tree.exists
          THEN /\ fs' = [fs EXCEPT ![Section] = AbsentTree]
               /\ wrote' = wrote \cup {<<Section, "rmtree", NoPath>>}
               /\ pc' = IF mapping = <<>> THEN "index" ELSE "check"
               /\ exc' = exc
          ELSE /\ Raise("FileNotFoundError")
               /\ UNCHANGED <<fs, wrote>>
     ELSE /\ pc' = IF mapping = <<>> THEN "index" ELSE "check"
          /\ UNCHANGED <<fs, wrote, exc>>
  /\ ei' = 1
  /\ UNCHANGED <<inputs, failed_symlinks, run, ti, src_file, tool_rc, ops,
                 allExisted, reported, history, recon>>

\* process_entry: the skip test
EntryCheck ==
  /\ pc = "check"
  /\ IF AllExist(Tree, Dests)
     THEN /\ Advance
          /\ allExisted' = TRUE
     ELSE /\ pc' = "resolve"
          /\ ei' = ei
          /\ allExisted' = FALSE
  /\ src_file' = NoSource
  /\ tool_rc' = -1
  /\ ops' = <<>>
  /\ UNCHANGED <<inputs, fs, failed_symlinks, exc, run, ti, wrote, reported,
                 history, recon>>

\* process_entry: the primary's directory is made, the source is resolved
EntryResolve ==
  /\ pc = "resolve"
  /\ fs' = [fs EXCEPT ![Section] = Mkdir(Tree, "scalable", Primary.dir)]
  /\ wrote' = wrote \cup DirMark(Tree, "scalable", Primary.dir)
  /\ src_file' = ResolveSource(srcFiles, Entry)
  /\ ops' = ops \o <<"mkdir", "resolve">>
  /\ IF src_file' = NoSource
     THEN Advance
     ELSE /\ pc' = "render"
          /\ ei' = ei
  /\ UNCHANGED <<inputs, failed_symlinks, exc, run, ti, tool_rc, allExisted,
                 reported, history, recon>>

\* process_entry: the source is parsed, restyled and written to the primary
EntryRender ==
  /\ pc = "render"
  /\ IF srcFiles[src_file] = "nostyle"
     THEN /\ Advance
          /\ UNCHANGED <<fs, wrote, ops, exc>>
     ELSE IF CanWrite(Tree, "scalable", Primary)
     THEN /\ fs' = [fs EXCEPT ![Section] = WriteFile(Tree, "scalable", Primary, Content)]
          /\ wrote' = wrote \cup {<<Section, "scalable", Final(Tree, "scalable", Primary)>>}
          /\ ops' = Append(ops, "write")
          /\ pc' = "link"
          /\ UNCHANGED <<ei, exc>>
     ELSE /\ Raise("OSError")
          /\ UNCHANGED <<fs, wrote, ops, ei>>
  /\ UNCHANGED <<inputs, failed_symlinks, run, ti, src_file, tool_rc, allExisted,
                 reported, history, recon>>

\* process_entry: every alias is unlinked and linked to the primary
EntryLink ==
  /\ pc = "link"
  /\ fs' = [fs EXCEPT ![Section] = LinkAliases(Tree, "scalable", Primary, Tail(Dests))]
  /\ wrote' = wrote \cup AliasMarks(Tree, "scalable", Dests)
  /\ ops' = ops \o [i \in 1..(Len(Dests) - 1) |-> "link"]
  /\ pc' = "inkscape"
  /\ UNCHANGED <<inputs, failed_symlinks, exc, run, ti, ei, src_file, tool_rc,
                 allExisted, reported, history, recon>>

\* process_entry: the tool test, the symbolic directory, the tool's run.
\* The tool exits 0 only when it could read the primary and write the export
\* (the export lands on the file the symbolic path resolves to); a failed
\* run may leave a .0.svg file next to the primary.
EntryInkscape ==
  /\ pc = "inkscape"
  /\ IF ~ has_inkscape
     THEN /\ Advance
          /\ UNCHANGED <<fs, wrote, ops, tool_rc, failed_symlinks>>
     ELSE LET made == Mkdir(Tree, "symbolic", Primary.dir)
              dirs == DirMark(Tree, "symbolic", Primary.dir)
              usable == Exists(made, "scalable", Primary) /\ CanWrite(made, "symbolic", Primary)
          IN  \E rc \in {0, 1}, crashed \in BOOLEAN :
                /\ rc = 0 => usable /\ ~ crashed
                /\ tool_rc' = rc
                /\ IF rc = 0
                   THEN /\ fs' = [fs EXCEPT ![Section] =
                                    WriteFile(made, "symbolic", Primary,
                                              [from |-> ReadFile(made, "scalable", Primary),
                                               scoured |-> FALSE])]
                        /\ wrote' = wrote \cup dirs \cup
                                      {<<Section, "symbolic", Final(made, "symbolic", Primary)>>}
                        /\ ops' = ops \o <<"mkdir", "export">>
                        /\ UNCHANGED failed_symlinks
                   ELSE /\ fs' = [fs EXCEPT ![Section] =
                                    IF crashed THEN [made EXCEPT !.stray = @ \cup {Primary}]
                                    ELSE made]
                        /\ wrote' = wrote \cup dirs \cup
                                      (IF crashed THEN {<<Section, "stray", Primary>>} ELSE {})
                        /\ ops' = Append(ops, "mkdir")
                        /\ failed_symlinks' = Append(failed_symlinks, src_file)
                /\ pc' = "scour"
                /\ ei' = ei
  /\ UNCHANGED <<inputs, exc, run, ti, src_file, allExisted, reported, history, recon>>

\* process_entry: the symbolic file is opened, minified and rewritten, and
\* the .0.svg files next to the primary are removed
EntryScour ==
  /\ pc = "scour"
  /\ IF Exists(Tree, "symbolic", Primary)
     THEN /\ fs' = [fs EXCEPT ![Section] =
                      [WriteFile(Tree, "symbolic", Primary,
                                 [ReadFile(Tree, "symbolic", Primary) EXCEPT !.scoured = TRUE])
                       EXCEPT !.stray = @ \ {Primary}]]
          /\ wrote' = wrote \cup {<<Section, "symbolic", Final(Tree, "symbolic", Primary)>>}
          /\ ops' = ops \o <<"read", "scour", "unstray">>
          /\ pc' = "symlink"
          /\ exc' = exc
     ELSE /\ Raise("FileNotFoundError")
          /\ UNCHANGED <<fs, wrote, ops>>
  /\ UNCHANGED <<inputs, failed_symlinks, run, ti, ei, src_file, tool_rc, allExisted,
                 reported, history, recon>>

\* process_entry: every symbolic alias is unlinked and linked
EntrySymlink ==
  /\ pc = "symlink"
  /\ fs' = [fs EXCEPT ![Section] = LinkAliases(Tree, "symbolic", Primary, Tail(Dests))]
  /\ wrote' = wrote \cup AliasMarks(Tree, "symbolic", Dests)
  /\ ops' = ops \o [i \in 1..(Len(Dests) - 1) |-> "symlink"]
  /\ Advance
  /\ UNCHANGED <<inputs, failed_symlinks, exc, run, ti, src_file, tool_rc,
                 allExisted, reported, history, recon>>

\* generate_destination: the loop moves to the next entry, or returns
EntryReturn ==
  /\ pc = "return"
  /\ IF ei < Len(mapping)
     THEN /\ ei' = ei + 1
          /\ pc' = "check"
     ELSE /\ ei' = ei
          /\ pc' = "index"
  /\ UNCHANGED <<inputs, fs, failed_symlinks, exc, run, ti, src_file, tool_rc, ops,
                 allExisted, wrote, reported, history, recon>>

\* generate_index_theme: the three keys are set and the file is written
\* (the template index.theme is present in the working directory)
ThemeIndex ==
  /\ pc = "index"
  /\ IF Tree.exists
     THEN /\ fs' = [fs EXCEPT ![Section].index = Section]
          /\ wrote' = wrote \cup {<<Section, "index.theme", NoPath>>}
          /\ pc' = "sizes"
          /\ exc' = exc
     ELSE /\ Raise("FileNotFoundError")
          /\ UNCHANGED <<fs, wrote>>
  /\ UNCHANGED <<inputs, failed_symlinks, run, ti, ei, src_file, tool_rc, ops,
                 allExisted, reported, history, recon>>

\* main: the size folders are linked to scalable, existing ones are kept
ThemeSizes ==
  /\ pc = "sizes"
  /\ fs' = [fs EXCEPT ![Section].sizes = SizeFolders]
  /\ wrote' = wrote \cup
                (IF Tree.sizes = SizeFolders THEN {} ELSE {<<Section, "sizes", NoPath>>})
  /\ IF ti < Len(config)
     THEN /\ ti' = ti + 1
          /\ pc' = "theme"
     ELSE /\ ti' = ti
          /\ pc' = "report"
  /\ UNCHANGED <<inputs, failed_symlinks, exc, run, ei, src_file, tool_rc, ops,
                 allExisted, reported, history, recon>>

\* main: the failure list is printed
Report ==
  /\ pc = "report"
  /\ reported' = TRUE
  /\ pc' = "done"
  /\ UNCHANGED <<inputs, fs, failed_symlinks, exc, run, ti, ei, src_file, tool_rc,
                 ops, allExisted, wrote, history, recon>>

\* the script is invoked again on the trees the last run left
NewRun ==
  /\ pc \in {"done", "aborted"}
  /\ run < MaxRuns
  /\ run' = run + 1
  /\ pc' = "start"
  /\ exc' = "none"
  /\ failed_symlinks' = <<>>
  /\ wrote' = {}
  /\ reported' = FALSE
  /\ prevFs' = fs
  /\ prevPc' = IF reported THEN "reported" ELSE pc
  /\ ti' = 1
  /\ ei' = 1
  /\ NoEntryState
  /\ UNCHANGED <<inputs, fs, recon>>

\* -------------------------------------------------------- the reconciler
\* Path(name).stem: the name without its last suffix
Stem(fname) == SubSeq(fname, 1, Len(fname) - 1)

\* what glob("arcticons-light/scalable/**/*.svg") yields, in no order
GlobItems(tree) ==
  {[dir |-> p.dir, name |-> FileName("scalable", p), node |-> tree.scal[p]] :
     p \in {q \in Paths : tree.scal[q].kind # "none"}}
  \cup {[dir |-> p.dir, name |-> <<p.stem, "0", "svg">>, node |-> FileNode("stray")] :
          p \in tree.stray}

\* a key taken from the path itself, link or not
IconNameOwnStem(item) == Stem(item.name)

\* os.readlink succeeds on a link, whatever it names; anything else raises
IconName(item) ==
  IF item.node.kind = "link"
  THEN Stem(item.node.target[Len(item.node.target)])
  ELSE Stem(item.name)

\* path.removeprefix("arcticons-light/scalable/").removesuffix(".svg")
FormattedPath(item) == [dir |-> item.dir, stem |-> Stem(item.name)]

\* the loop over the glob
RECURSIVE Scan(_, _)
Scan(order, map) ==
  IF order = <<>> THEN map
  ELSE LET item == Head(order)
           name == IconName(item)
           path == FormattedPath(item)
       IN  Scan(Tail(order),
                IF name \in DOMAIN map
                THEN [map EXCEPT ![name] = Append(@, path)]
                ELSE [k \in DOMAIN map \cup {name} |->
                        IF k = name THEN <<path>> ELSE map[k]])

EmptyMap == [k \in {} |-> <<>>]

Orders(S) ==
  {o \in [1..Cardinality(S) -> S] : \A i, j \in DOMAIN o : o[i] = o[j] => i = j}

\* find_missing_mappings.py, run on the tree a finished run left
Reconcile ==
  /\ pc \in {"done", "aborted"}
  /\ \E order \in Orders(GlobItems(fs["arcticons-light"])) :
       /\ scanOrder' = order
       /\ link_map' = Scan(order, EmptyMap)
  /\ pc' = "reconciled"
  /\ UNCHANGED <<inputs, fs, failed_symlinks, exc, run, ti, ei, src_file, tool_rc,
                 ops, allExisted, wrote, reported, history>>

\* ------------------------------------------------------------ the inputs
DestLists == UNION {[1..n -> Paths] : n \in 1..MaxDests}

Item(e, d) == [entry |-> e, dests |-> d]

Layout(present, bare) ==
  [s \in SrcSlots |-> IF s \in bare THEN "nostyle"
                      ELSE IF s \in present THEN "styled" ELSE "absent"]

\* both names in the first source directory, with a style block
PlainLayout == Layout({<<"src1", NameAB>>, <<"src1", NameC>>}, {})

OldContent == [src |-> NoSource, theme |-> "old"]

OldSymbolic == [from |-> OldContent, scoured |-> TRUE]

\* trees an earlier generation left behind: nothing, an empty directory,
\* one stale file, one stale file with its symbolic variant, or one link
\* whose target is gone
PriorTrees ==
  {AbsentTree, EmptyTree}
  \cup {SetNode(Mkdir(EmptyTree, "scalable", p.dir), "scalable", p, FileNode(OldContent)) :
          p \in Paths}
  \cup {SetNode(SetNode(Mkdir(Mkdir(EmptyTree, "scalable", p.dir), "symbolic", p.dir),
                        "scalable", p, FileNode(OldContent)),
                "symbolic", p, FileNode(OldSymbolic)) : p \in Paths}
  \cup {SetNode(Mkdir(Mkdir(EmptyTree, "scalable", p.dir), "scalable", q.dir), "scalable", p,
                LinkNode(RelativeTo("scalable", q, p))) : p, q \in Paths}

Cfg(s, o) == [section |-> s, overwrite |-> o]

\* two sections, every overwrite flag, destinations present or not
ThemeCases ==
  {[has_inkscape |-> h,
    config |-> <<Cfg("arcticons-light", o1), Cfg("arcticons-dark", o2)>>,
    mapping |-> <<Item(NameAB, <<Dest("apps", "foo"), Dest("apps", "bar")>>),
                  Item(NameC, <<Dest("places", "foo")>>)>>,
    srcFiles |-> PlainLayout,
    fs |-> [s \in SectionSet |-> IF s = "arcticons-light" THEN t1 ELSE t2]] :
     h \in BOOLEAN, o1 \in BOOLEAN, o2 \in BOOLEAN,
     t1 \in {AbsentTree, EmptyTree}, t2 \in {AbsentTree, EmptyTree}}

\* one section, one entry: every destination list on every prior tree
EntryCases ==
  {[has_inkscape |-> TRUE,
    config |-> <<Cfg("arcticons-light", o)>>,
    mapping |-> <<Item(NameAB, d)>>,
    srcFiles |-> l,
    fs |-> [s \in SectionSet |-> IF s = "arcticons-light" THEN t ELSE AbsentTree]] :
     o \in BOOLEAN, d \in DestLists, t \in PriorTrees,
     l \in {PlainLayout, Layout({<<"src2", NameC>>}, {}),
            Layout({<<"src1", NameAB>>}, {<<"src1", NameAB>>})}}

\* one section, two entries: every pair of destination lists
MappingCases ==
  {[has_inkscape |-> TRUE,
    config |-> <<Cfg("arcticons-light", FALSE)>>,
    mapping |-> <<Item(NameAB, d1), Item(NameC, d2)>>,
    srcFiles |-> l,
    fs |-> [s \in SectionSet |-> AbsentTree]] :
     d1 \in DestLists, d2 \in DestLists,
     l \in {PlainLayout, Layout({<<"src1", NameAB>>}, {})}}

\* one section, one entry: every placement of the two spellings of the name
SourceCases ==
  {[has_inkscape |-> TRUE,
    config |-> <<Cfg("arcticons-light", FALSE)>>,
    mapping |-> <<Item(NameAB, <<Dest("apps", "foo")>>)>>,
    srcFiles |-> Layout(present, bare),
    fs |-> [s \in SectionSet |-> AbsentTree]] :
     present \in SUBSET (SrcSlots \ {<<SrcPaths[i], NameC>> : i \in DOMAIN SrcPaths}),
     bare \in {{}, {<<"src2", NameAB>>}}}

Cases == ThemeCases \cup EntryCases \cup MappingCases \cup SourceCases

Init ==
  /\ \E c \in Cases :
       /\ has_inkscape = c.has_inkscape
       /\ config = c.config
       /\ mapping = c.mapping
       /\ srcFiles = c.srcFiles
       /\ fs = c.fs
  /\ failed_symlinks = <<>>
  /\ pc = "start"
  /\ exc = "none"
  /\ run = 1
  /\ ti = 1
  /\ ei = 1
  /\ src_file = NoSource
  /\ tool_rc = -1
  /\ ops = <<>>
  /\ allExisted = FALSE
  /\ wrote = {}
  /\ reported = FALSE
  /\ prevFs = fs
  /\ prevPc = "none"
  /\ link_map = EmptyMap
  /\ scanOrder = <<>>

Next ==
  \/ MainStart
  \/ ThemeBegin
  \/ EntryCheck
  \/ EntryResolve
  \/ EntryRender
  \/ EntryLink
  \/ EntryInkscape
  \/ EntryScour
  \/ EntrySymlink
  \/ EntryReturn
  \/ ThemeIndex
  \/ ThemeSizes
  \/ Report
  \/ NewRun
  \/ Reconcile

Spec == Init /\ [][Next]_vars

\* ------------------------------------------------------------ the claims
\* the positions inside one call of process_entry
InCall == pc \in {"resolve", "render", "link", "inkscape", "scour", "symlink", "return"}

\* the first run, started on destinations that were absent or empty
FreshStart == run = 1 /\ \A s \in SectionSet : prevFs[s] \in {AbsentTree, EmptyTree}

\* C1: without the tool a finished run has still produced, in every
\* configured theme, the primary and every alias of each entry whose source
\* resolves and carries a style block.
C1_VectorThemeWithoutTool ==
  (~ has_inkscape /\ pc = "done") =>
    \A i \in DOMAIN config, k \in DOMAIN mapping :
      LET s == ResolveSource(srcFiles, mapping[k].entry)
      IN  (s # NoSource /\ srcFiles[s] = "styled") =>
            \A j \in DOMAIN mapping[k].dests :
              Exists(fs[config[i].section], "scalable", mapping[k].dests[j])

\* C2: a non-zero exit of the tool is caught: the source path is the last
\* element of the failure list and the run is not aborted.
C2_ToolFailureIsCaught ==
  tool_rc = 1 =>
    /\ pc # "aborted"
    /\ failed_symlinks # <<>>
    /\ failed_symlinks[Len(failed_symlinks)] = src_file

\* C3: once the documents are read the run never aborts, and when it is done
\* it has processed every configured theme and printed the failure report.
C3_RunCompletes ==
  has_inkscape =>
    /\ pc # "aborted"
    /\ pc = "done" =>
         /\ reported
         /\ \A i \in DOMAIN config : fs[config[i].section].index = config[i].section

\* C4 as stated: a second run without overwrite, after a run that completed
\* with every entry present, leaves the trees as they were and writes nothing.
C4_SecondRunWritesNothing ==
  (/\ run > 1
   /\ prevPc = "reported"
   /\ \A i \in DOMAIN config : ~ config[i].overwrite
   /\ \A i \in DOMAIN config, k \in DOMAIN mapping : \A j \in DOMAIN mapping[k].dests :
        Exists(prevFs[config[i].section], "scalable", mapping[k].dests[j]))
  => (fs = prevFs /\ wrote = {})

\* C4 as amended: such a second run leaves the trees as they were, and the
\* only thing it writes is index.theme, with the content it already had.
C4_SecondRunRewritesOnlyIndex ==
  (/\ run > 1
   /\ prevPc = "reported"
   /\ \A i \in DOMAIN config : ~ config[i].overwrite
   /\ \A i \in DOMAIN config, k \in DOMAIN mapping : \A j \in DOMAIN mapping[k].dests :
        Exists(prevFs[config[i].section], "scalable", mapping[k].dests[j]))
  => (/\ fs = prevFs
      /\ wrote \subseteq {<<config[i].section, "index.theme", NoPath>> : i \in DOMAIN config})

C4_Witness ==
  /\ run > 1
  /\ prevPc = "reported"
  /\ pc = "done"
  /\ reported
  /\ \A i \in DOMAIN config : ~ config[i].overwrite
  /\ \A i \in DOMAIN config, k \in DOMAIN mapping : \A j \in DOMAIN mapping[k].dests :
       Exists(prevFs[config[i].section], "scalable", mapping[k].dests[j])
  /\ \E k \in DOMAIN mapping : Len(mapping[k].dests) > 1
  /\ wrote = {<<config[i].section, "index.theme", NoPath>> : i \in DOMAIN config}

\* C5 as stated: the call skips exactly when the primary and every alias
\* exist under scalable, and otherwise it writes the primary from the source
\* before it links any alias.
C5_RerenderWheneverMissing ==
  /\ (pc = "return" /\ ops = <<>>) =>
       \A i \in DOMAIN Dests : Exists(Tree, "scalable", Dests[i])
  /\ pc = "resolve" => \E i \in DOMAIN Dests : ~ Exists(Tree, "scalable", Dests[i])
  /\ (pc = "return" /\ ops # <<>>) => (Len(ops) >= 3 /\ ops[3] = "write")

\* C5 as amended: the call skips exactly when the primary and every alias
\* exist under scalable, whatever the symbolic tree holds; otherwise it
\* resolves the source, and when the source resolves and carries a style
\* block it writes the primary before it links any alias.
C5_SkipRule ==
  /\ (pc = "return" /\ ops = <<>>) =>
       \A i \in DOMAIN Dests : Exists(Tree, "scalable", Dests[i])
  /\ pc = "resolve" => \E i \in DOMAIN Dests : ~ Exists(Tree, "scalable", Dests[i])
  /\ (pc = "return" /\ ops # <<>>) =>
       /\ ops[2] = "resolve"
       /\ (src_file # NoSource /\ srcFiles[src_file] = "styled") =>
            (Len(ops) >= 3 /\ ops[3] = "write")
  /\ \A i \in DOMAIN ops : ops[i] = "link" => \E j \in 1..(i - 1) : ops[j] = "write"

C5_Witness ==
  /\ pc = "return"
  /\ run = 1
  /\ ~ config[ti].overwrite
  /\ Len(Dests) > 1
  /\ prevFs[Section].scal[Dests[2]].kind = "link"
  /\ ~ Exists(prevFs[Section], "scalable", Dests[2])
  /\ \E i \in DOMAIN ops : ops[i] = "link"

\* C6: when the aliases of a rendered entry have been linked, the first
\* destination is a regular file and every other destination is a relative
\* link that resolves to it (stated for destinations that were absent or
\* empty before the run).
C6_AliasFanOut ==
  (pc = "inkscape" /\ FreshStart) =>
    /\ Tree.scal[Primary].kind = "file"
    /\ \A i \in 2..Len(Dests) :
         /\ Tree.scal[Dests[i]] = LinkNode(RelativeTo("scalable", Primary, Dests[i]))
         /\ Final(Tree, "scalable", Dests[i]) = Primary

\* C7: a call whose name resolves in no source directory returns without
\* raising and leaves every tree as it was.
C7_MissingSourceLeavesTree ==
  [][(pc = "resolve" /\ ResolveSource(srcFiles, Entry) = NoSource)
       => (fs' = fs /\ pc' = "return")]_vars

\* C8 as stated: on the tree of a completed generation (into an absent or
\* empty destination, every entry's source resolving with a style block) the
\* reconciler has, for every mapping entry, a group keyed by the stem of the
\* primary that holds the primary and every alias; every path found is in
\* exactly one group, once, and each group is in discovery order.
C8_GroupPerEntry ==
  (/\ pc = "reconciled"
   /\ reported
   /\ FreshStart
   /\ \A k \in DOMAIN mapping :
        LET s == ResolveSource(srcFiles, mapping[k].entry)
        IN  s # NoSource /\ srcFiles[s] = "styled") =>
    LET tree == fs["arcticons-light"]
        place(x) == CHOOSE n \in DOMAIN scanOrder : FormattedPath(scanOrder[n]) = x
    IN  /\ \A k \in DOMAIN mapping : \A j \in DOMAIN mapping[k].dests :
             LET key == <<mapping[k].dests[1].stem>>
                 d == mapping[k].dests[j]
             IN  /\ key \in DOMAIN link_map
                 /\ \E n \in DOMAIN link_map[key] :
                      link_map[key][n] = [dir |-> d.dir, stem |-> <<d.stem>>]
        /\ \A item \in GlobItems(tree) :
             Cardinality(UNION {{<<g, n>> : n \in {m \in DOMAIN link_map[g] :
                                    link_map[g][m] = FormattedPath(item)}} :
                                g \in DOMAIN link_map}) = 1
        /\ \A g \in DOMAIN link_map : \A m, n \in DOMAIN link_map[g] :
             m < n => place(link_map[g][m]) < place(link_map[g][n])

\* C8 as amended: the same, for every mapping entry that the scanned tree
\* holds as the generator lays it out: the primary a regular file, every
\* alias a link that names the primary.
C8_GroupPerGeneratedEntry ==
  pc = "reconciled" =>
    LET tree == fs["arcticons-light"]
        place(x) == CHOOSE n \in DOMAIN scanOrder : FormattedPath(scanOrder[n]) = x
        laidOut(k) ==
          /\ tree.scal[mapping[k].dests[1]].kind = "file"
          /\ \A j \in 2..Len(mapping[k].dests) :
               tree.scal[mapping[k].dests[j]] =
                 LinkNode(RelativeTo("scalable", mapping[k].dests[1], mapping[k].dests[j]))
    IN  /\ \A k \in DOMAIN mapping : laidOut(k) =>
             \A j \in DOMAIN mapping[k].dests :
               LET key == <<mapping[k].dests[1].stem>>
                   d == mapping[k].dests[j]
               IN  /\ key \in DOMAIN link_map
                   /\ \E n \in DOMAIN link_map[key] :
                        link_map[key][n] = [dir |-> d.dir, stem |-> <<d.stem>>]
        /\ \A item \in GlobItems(tree) :
             Cardinality(UNION {{<<g, n>> : n \in {m \in DOMAIN link_map[g] :
                                    link_map[g][m] = FormattedPath(item)}} :
                                g \in DOMAIN link_map}) = 1
        /\ \A g \in DOMAIN link_map : \A m, n \in DOMAIN link_map[g] :
             m < n => place(link_map[g][m]) < place(link_map[g][n])

C8_Witness ==
  /\ pc = "reconciled"
  /\ reported
  /\ \E k \in DOMAIN mapping :
       /\ Len(mapping[k].dests) > 1
       /\ mapping[k].dests[1].stem # mapping[k].dests[2].stem
       /\ fs["arcticons-light"].scal[mapping[k].dests[1]].kind = "file"
       /\ fs["arcticons-light"].scal[mapping[k].dests[2]] =
            LinkNode(RelativeTo("scalable", mapping[k].dests[1], mapping[k].dests[2]))
       /\ Len(link_map[<<mapping[k].dests[1].stem>>]) > 1

\* C9: the resolved source is the exact name in the first directory that
\* holds it; failing that in every directory, the hyphenated name in the
\* first directory that holds it; and no source exactly when no directory
\* holds either spelling.
C9_TwoPassResolution ==
  (InCall /\ ops # <<>>) =>
    LET held(n) == {i \in DOMAIN SrcPaths : srcFiles[<<SrcPaths[i], n>>] # "absent"}
        first(S) == CHOOSE i \in S : \A j \in S : i <= j
        hyphen == IF Entry = <<"a", "_", "b">> THEN <<"a", "-", "b">> ELSE Entry
    IN  IF held(Entry) # {}
        THEN src_file = <<SrcPaths[first(held(Entry))], Entry>>
        ELSE IF held(hyphen) # {}
        THEN src_file = <<SrcPaths[first(held(hyphen))], hyphen>>
        ELSE src_file = NoSource

C9_Witness ==
  /\ pc = "render"
  /\ Entry = <<"a", "_", "b">>
  /\ srcFiles[<<"src1", <<"a", "_", "b">>>>] = "absent"
  /\ srcFiles[<<"src1", <<"a", "-", "b">>>>] # "absent"
  /\ srcFiles[<<"src2", <<"a", "_", "b">>>>] # "absent"
  /\ src_file = <<"src2", <<"a", "_", "b">>>>

\* C10: after a non-zero exit of the tool the call neither reads nor
\* rewrites the symbolic file, nor links a symbolic alias.
C10_SymbolicWorkOnlyAfterExport ==
  tool_rc = 1 => ~ \E i \in DOMAIN ops : ops[i] \in {"read", "scour", "symlink"}

====
